---- MODULE Spec2Model ----
(***************************************************************************)
(* Wine classification client and service.                                 *)
(*   frontend/Dashboard.py : call_api, try_batch_with_fallback,            *)
(*                           normalize_uploaded_json, run                  *)
(*   Backend/src/main.py   : WineData, predict_wine,                       *)
(*                           predict_wine_with_probability                 *)
(*                                                                         *)
(* JSON / Python values are tagged tuples, the tag first:                  *)
(*   <<"null">>  <<"num", n>>  <<"str", words>>  <<"list", items>>         *)
(*   <<"dict", pairs>>   with pairs a sequence of <<key, value>> in        *)
(* insertion order, as a Python dict keeps them.  A string is the sequence *)
(* of its words, so that "substring in string" is a computation.  Floats   *)
(* are integers in an abstract unit.                                       *)
(***************************************************************************)
EXTENDS Integers, Sequences, FiniteSets, TLC

VARIABLES
    \* try_batch_with_fallback(endpoint, records)
    pc,             \* position of the client: idle, start, await_batch, loop, await_item, returned
    endpoint,       \* parameter endpoint
    records,        \* parameter records (a sequence of JSON values)
    i,              \* 1-based position of the for loop of line 83
    aggregated,     \* local aggregated (line 82)
    elapsed_total,  \* local elapsed_total (line 49)
    ret,            \* the returned triple (success, result, elapsed_total)
    log,            \* history: every requests.post issued, with its outcome and duration
    \* Inference Service (main.py)
    svc_endpoint,   \* route of the request being served
    svc_req,        \* its JSON body
    svc_resp,       \* the HTTP response produced
    model_available,\* whether predict.py finds wine_model.pkl
    model_invoked,  \* whether model.predict ran for this request
    svc_pc,         \* idle, received, responded
    \* run() (Dashboard.py), one script run
    input_mode,     \* st.radio of line 150
    session_json,   \* st.session_state["UPLOADED_JSON"] when the main body starts
    button,         \* which button was clicked in this run
    payload,        \* local payload (lines 203-217)
    ui,             \* what the script run ended with
    \* normalize_uploaded_json as a function under test
    uploaded_json,  \* its argument
    normalized,     \* its result
    norm_pc         \* idle, ready, returned, raised

clientVars == <<pc, endpoint, records, i, aggregated, elapsed_total, ret, log>>
svcVars    == <<svc_endpoint, svc_req, svc_resp, model_available, model_invoked, svc_pc>>
uiVars     == <<input_mode, session_json, button, payload, ui>>
normVars   == <<uploaded_json, normalized, norm_pc>>
vars       == <<clientVars, svcVars, uiVars, normVars>>

----------------------------------------------------------------------------
\* Bounds of the model
MaxN   == 2     \* longest sequence of records handed to the client
MaxDur == 2     \* longest duration of one network call, in abstract time units

----------------------------------------------------------------------------
\* JSON / Python values

JNull      == <<"null">>
JNum(n)    == <<"num", n>>
JStr(w)    == <<"str", w>>
JList(s)   == <<"list", s>>
JDict(p)   == <<"dict", p>>

IsNull(j)  == j[1] = "null"
IsNum(j)   == j[1] = "num"
IsStr(j)   == j[1] = "str"
IsList(j)  == j[1] = "list"
IsDict(j)  == j[1] = "dict"

Items(j)   == j[2]      \* of a list
Pairs(j)   == j[2]      \* of a dict
Words(j)   == j[2]      \* of a str

\* key in d
HasKey(d, key) == \E n \in 1..Len(Pairs(d)) : Pairs(d)[n][1] = key

\* d[key], for a key that is in d
Lookup(d, key) ==
    LET n == CHOOSE m \in 1..Len(Pairs(d)) : Pairs(d)[m][1] = key
    IN  Pairs(d)[n][2]

\* d.get(key, default)
Get(d, key, default) == IF HasKey(d, key) THEN Lookup(d, key) ELSE default

\* Python truthiness: None, 0, "", [] and {} are falsy
Truthy(j) ==
    CASE IsNull(j) -> FALSE
      [] IsNum(j)  -> j[2] # 0
      [] IsStr(j)  -> Len(Words(j)) > 0
      [] IsList(j) -> Len(Items(j)) > 0
      [] IsDict(j) -> Len(Pairs(j)) > 0

\* sub in s, on word sequences
Contains(s, sub) ==
    \E k \in 0..(Len(s) - Len(sub)) :
        \A n \in 1..Len(sub) : s[k + n] = sub[n]

\* str(x) for the scalar values a msg field holds in this model
StrOf(j) ==
    CASE IsStr(j)  -> Words(j)
      [] IsNum(j)  -> <<"<number>">>
      [] IsNull(j) -> <<"None">>
      [] OTHER     -> <<"<repr>">>

SeqsUpTo(S, n) == UNION {[1..k -> S] : k \in 0..n}

RECURSIVE SumDur(_)
SumDur(s) == IF s = <<>> THEN 0 ELSE s[1] + SumDur(Tail(s))

----------------------------------------------------------------------------
\* Feature records

\* WINE_FEATURES (Dashboard.py) and the fields of WineData (main.py), same order
WINE_FEATURES ==
    << "alcohol", "malic_acid", "ash", "alcalinity_of_ash", "magnesium",
       "total_phenols", "flavanoids", "nonflavanoid_phenols",
       "proanthocyanins", "color_intensity", "hue",
       "od280_od315_of_diluted_wines", "proline" >>

FeatureNames == {WINE_FEATURES[n] : n \in 1..Len(WINE_FEATURES)}

\* the record of the manual form with its default values (lines 157-163),
\* feature alcohol set to a
RecordWith(a) ==
    JDict([n \in 1..Len(WINE_FEATURES) |->
            << WINE_FEATURES[n],
               IF WINE_FEATURES[n] \in {"magnesium", "proline"} THEN JNum(100)
               ELSE IF WINE_FEATURES[n] = "alcohol" THEN JNum(a)
               ELSE JNum(1) >>])

RecA == RecordWith(1)
RecB == RecordWith(13)

\* dict d without key
RECURSIVE DropPairs(_, _)
DropPairs(ps, key) ==
    IF ps = <<>> THEN <<>>
    ELSE IF ps[1][1] = key THEN DropPairs(Tail(ps), key)
    ELSE <<ps[1]>> \o DropPairs(Tail(ps), key)

Without(d, key) == JDict(DropPairs(Pairs(d), key))

\* dict d with d[key] = v (the position of an existing key is kept)
Put(d, key, v) ==
    IF HasKey(d, key)
    THEN JDict([n \in 1..Len(Pairs(d)) |->
                  IF Pairs(d)[n][1] = key THEN <<key, v>> ELSE Pairs(d)[n]])
    ELSE JDict(Append(Pairs(d), <<key, v>>))

----------------------------------------------------------------------------
\* Messages

\* the text line 74 looks for
Signature == <<"dictionary", "or", "object">>

\* the message of the server named in the docstring of try_batch_with_fallback
MsgObjectExpected ==
    << "Input", "should", "be", "a", "valid", "dictionary", "or", "object",
       "to", "extract", "fields", "from" >>
MsgFieldRequired == <<"Field", "required">>
MsgNotANumber    == <<"Input", "should", "be", "a", "valid", "number">>
MsgModelMissing  ==
    << "Wine", "model", "not", "found.", "Please", "run", "train.py",
       "first", "to", "create", "the", "model." >>

----------------------------------------------------------------------------
\* HTTP: the outcome of one requests.post
\*   <<"exc", words>>                 the call raised (connection error, timeout)
\*   <<"resp", status, <<"json", j>>>> a response whose body decodes as JSON
\*   <<"resp", status, <<"text", w>>>> a response whose body is no JSON

Exc(w)              == <<"exc", w>>
Resp(status, body)  == <<"resp", status, body>>
JsonBody(j)         == <<"json", j>>
TextBody(w)         == <<"text", w>>
Pending             == <<"pending">>

IsExc(o)        == o[1] = "exc"
IsResp(o)       == o[1] = "resp"
status_code(o)  == o[2]
HasJson(o)      == o[3][1] = "json"     \* resp.json() does not raise
json(o)         == o[3][2]              \* resp.json()
text(o)         == o[3][2]              \* resp.text, of a body that is no JSON

HTTP_200 == 200
HTTP_422 == 422
HTTP_500 == 500

----------------------------------------------------------------------------
\* What the network may answer (the endpoint is any HTTP server)

Durations == 1..MaxDur

ErrorItem(type, loc, msg) ==
    JDict(<< <<"type", JStr(<<type>>)>>, <<"loc", JList(loc)>>, <<"msg", JStr(msg)>> >>)

Detail(d) == JDict(<< <<"detail", d>> >>)

ObjectExpectedError ==
    ErrorItem("model_attributes_type", <<JStr(<<"body">>)>>, MsgObjectExpected)
FieldRequiredError(f) ==
    ErrorItem("missing", <<JStr(<<"body">>), JStr(<<f>>)>>, MsgFieldRequired)
NotANumberError(f) ==
    ErrorItem("float_parsing", <<JStr(<<"body">>), JStr(<<f>>)>>, MsgNotANumber)

\* {"prediction": c, "class_name": "class_c"}
ClassName(c) == IF c = 0 THEN "class_0" ELSE IF c = 1 THEN "class_1" ELSE "class_2"
Prediction(c) ==
    JDict(<< <<"prediction", JNum(c)>>, <<"class_name", JStr(<<ClassName(c)>>)>> >>)

HtmlText == <<"Internal", "Server", "Error">>

\* bodies that match line 74
MatchingBodies ==
    { JsonBody(Detail(JList(<<ObjectExpectedError>>))),
      JsonBody(Detail(JList(<<FieldRequiredError("alcohol"), ObjectExpectedError>>))) }

\* bodies that do not: no JSON, no dict, no detail, a detail that is no list,
\* items that are no dicts or have no msg, a msg without the signature
OtherBodies ==
    { TextBody(HtmlText),
      TextBody(MsgObjectExpected),
      JsonBody(JList(<<ObjectExpectedError>>)),
      JsonBody(JStr(MsgObjectExpected)),
      JsonBody(JDict(<<>>)),
      JsonBody(Detail(JStr(MsgObjectExpected))),
      JsonBody(Detail(ObjectExpectedError)),
      JsonBody(Detail(JNum(5))),
      JsonBody(Detail(JNull)),
      JsonBody(Detail(JList(<<>>))),
      JsonBody(Detail(JList(<<JStr(MsgObjectExpected)>>))),
      JsonBody(Detail(JList(<<JDict(<< <<"type", JStr(<<"missing">>)>> >>)>>))),
      JsonBody(Detail(JList(<<JDict(<< <<"msg", JNum(5)>> >>)>>))),
      JsonBody(Detail(JList(<<FieldRequiredError("alcohol")>>))),
      JsonBody(JList(<<Prediction(0), Prediction(1)>>)) }

Statuses == {HTTP_200, HTTP_422, HTTP_500}

Failures == {Exc(<<"Read", "timed", "out.">>), Exc(<<"Connection", "refused">>)}

BatchOutcomes ==
    Failures \cup {Resp(st, b) : st \in Statuses, b \in MatchingBodies \cup OtherBodies}

ItemOutcomes ==
    { Exc(<<"Read", "timed", "out.">>),
      Resp(HTTP_200, JsonBody(Prediction(1))),
      Resp(HTTP_200, TextBody(<<"OK">>)),
      Resp(HTTP_422, JsonBody(Detail(JList(<<FieldRequiredError("proline")>>)))),
      Resp(HTTP_500, TextBody(HtmlText)) }

----------------------------------------------------------------------------
\* try_batch_with_fallback (Dashboard.py lines 39-108)

\* should_fallback with the test of line 74 left out: any 422 falls back
should_fallback_any(resp) == TRUE

\* the value of should_fallback after lines 68-78
should_fallback(resp) ==
    IF ~HasJson(resp) THEN FALSE                \* resp.json() raises
    ELSE LET err == json(resp) IN
         IF ~IsDict(err) THEN FALSE             \* err.get raises
         ELSE LET detail == Get(err, "detail", JList(<<>>)) IN
              IF IsList(detail)
              THEN \E n \in 1..Len(Items(detail)) :
                      LET d == Items(detail)[n] IN
                         /\ IsDict(d)
                         /\ HasKey(d, "msg")
                         /\ Contains(StrOf(Lookup(d, "msg")), Signature)
              \* iterating a str or a dict yields no dict; a number or None raises
              ELSE FALSE

\* f"Request failed: {e}"
request_failed(e) == JStr(<<"Request", "failed:">> \o e[2])

\* resp.json(), or {"raw_text": resp.text} when that raises (lines 60-63, 92-95)
decode_or_raw(resp) ==
    IF HasJson(resp) THEN json(resp)
    ELSE JDict(<< <<"raw_text", JStr(text(resp))>> >>)

\* resp.json(), or resp.text when that raises (lines 105-108)
original_error(resp) ==
    IF HasJson(resp) THEN json(resp) ELSE JStr(text(resp))

\* the entry appended for a call that raised (line 88)
item_failure(e, rec) ==
    JDict(<< <<"error", request_failed(e)>>, <<"input", rec>> >>)

\* the entry appended for a response that is not a 200 (lines 98-101)
item_error(resp, rec) ==
    JDict(<< <<"error", original_error(resp)>>,
             <<"status", JNum(status_code(resp))>> >>)

\* the returned triple
Return(success, result, elapsed) ==
    [success |-> success, result |-> result, elapsed_total_seconds |-> elapsed]

NoReturn == Return(FALSE, JNull, 0)

\* the locals of the function
Locals == [pc |-> pc, i |-> i, aggregated |-> aggregated,
           elapsed_total |-> elapsed_total, ret |-> ret]

\* batch_step with the test of line 59 never true: a 200 is handled as an error
batch_step_no_200(L, o, d) ==
    IF IsExc(o)
    THEN [L EXCEPT !.pc = "returned",
                   !.ret = Return(FALSE, request_failed(o), L.elapsed_total)]
    ELSE LET total == L.elapsed_total + d IN
         IF status_code(o) = HTTP_422 /\ should_fallback(o)
         THEN [L EXCEPT !.pc = "loop", !.elapsed_total = total,
                        !.aggregated = <<>>, !.i = 1]
         ELSE [L EXCEPT !.pc = "returned", !.elapsed_total = total,
                        !.ret = Return(FALSE, original_error(o), total)]

\* lines 52-108, from the outcome o of the optimistic call, which took d
batch_step(L, o, d) ==
    IF IsExc(o)
    THEN [L EXCEPT !.pc = "returned",
                   !.ret = Return(FALSE, request_failed(o), L.elapsed_total)]
    ELSE LET total == L.elapsed_total + d IN
         IF status_code(o) = HTTP_200
         THEN [L EXCEPT !.pc = "returned", !.elapsed_total = total,
                        !.ret = Return(TRUE, decode_or_raw(o), total)]
         ELSE IF status_code(o) = HTTP_422 /\ should_fallback(o)
         THEN [L EXCEPT !.pc = "loop", !.elapsed_total = total,
                        !.aggregated = <<>>, !.i = 1]
         ELSE [L EXCEPT !.pc = "returned", !.elapsed_total = total,
                        !.ret = Return(FALSE, original_error(o), total)]

\* item_step inserting at the front (aggregated.insert(0, ...))
item_step_prepend(L, o, d, rec) ==
    IF IsExc(o)
    THEN [L EXCEPT !.pc = "loop", !.i = @ + 1,
                   !.aggregated = <<item_failure(o, rec)>> \o @]
    ELSE [L EXCEPT !.pc = "loop", !.i = @ + 1,
                   !.elapsed_total = @ + d,
                   !.aggregated =
                        <<IF status_code(o) = HTTP_200
                          THEN decode_or_raw(o)
                          ELSE item_error(o, rec)>> \o @]

\* item_step without the try of lines 84-89: a call that raises ends the
\* function as the optimistic call does
item_step_abort(L, o, d, rec) ==
    IF IsExc(o)
    THEN [L EXCEPT !.pc = "returned",
                   !.ret = Return(FALSE, request_failed(o), L.elapsed_total)]
    ELSE [L EXCEPT !.pc = "loop", !.i = @ + 1,
                   !.elapsed_total = @ + d,
                   !.aggregated =
                        Append(@, IF status_code(o) = HTTP_200
                                  THEN decode_or_raw(o)
                                  ELSE item_error(o, rec))]

\* lines 84-101: one pass of the loop, from the outcome o of the call for rec
item_step(L, o, d, rec) ==
    IF IsExc(o)
    THEN [L EXCEPT !.pc = "loop", !.i = @ + 1,
                   !.aggregated = Append(@, item_failure(o, rec))]
    ELSE [L EXCEPT !.pc = "loop", !.i = @ + 1,
                   !.elapsed_total = @ + d,
                   !.aggregated =
                        Append(@, IF status_code(o) = HTTP_200
                                  THEN decode_or_raw(o)
                                  ELSE item_error(o, rec))]

\* line 102
loop_exit(L) ==
    [L EXCEPT !.pc = "returned",
              !.ret = Return(TRUE, JList(L.aggregated), L.elapsed_total)]

SetLocals(L) ==
    /\ pc' = L.pc
    /\ i' = L.i
    /\ aggregated' = L.aggregated
    /\ elapsed_total' = L.elapsed_total
    /\ ret' = L.ret

\* timeout: float = 15.0 (line 30), in seconds; None when a call passes none
call_api_timeout == 15
NoTimeout        == JNull
TimedOut         == Exc(<<"Read", "timed", "out.">>)

\* requests.post of call_api (line 35) is issued with timeout=timeout ...
Issue(ep, body) ==
    log' = Append(log, [method |-> "POST", endpoint |-> ep, payload |-> body,
                        timeout |-> JNum(call_api_timeout),
                        outcome |-> Pending, dur |-> 0])

\* ... and returns or raises after d; it raises a timeout only when it was
\* given one
Complete(o, d) ==
    /\ o = TimedOut => log[Len(log)].timeout # NoTimeout
    /\ log' = [log EXCEPT ![Len(log)].outcome = o, ![Len(log)].dur = d]

InFlight == {n \in 1..Len(log) : log[n].outcome = Pending}

\* lines 49-53: the optimistic call goes out with the whole list
BatchSend ==
    /\ pc = "start"
    /\ pc' = "await_batch"
    /\ elapsed_total' = 0
    /\ Issue(endpoint, JList(records))
    /\ UNCHANGED <<endpoint, records, i, aggregated, ret>>
    /\ UNCHANGED <<svcVars, uiVars, normVars>>

\* lines 53-108, up to a return or to the first pass of the loop
BatchReceive ==
    /\ pc = "await_batch"
    /\ \E o \in BatchOutcomes, d \in Durations :
          /\ Complete(o, d)
          /\ SetLocals(batch_step(Locals, o, d))
    /\ UNCHANGED <<endpoint, records>>
    /\ UNCHANGED <<svcVars, uiVars, normVars>>

\* ItemSend that does not wait for the answer to the previous per-record
\* call (the calls submitted to a pool of workers)
ItemSend_eager ==
    /\ pc \in {"loop", "await_item"}
    /\ Len(log) <= Len(records)
    /\ pc' = "await_item"
    /\ Issue(endpoint, records[Len(log)])
    /\ UNCHANGED <<endpoint, records, i, aggregated, elapsed_total, ret>>
    /\ UNCHANGED <<svcVars, uiVars, normVars>>

\* lines 83-85: the call for records[i] goes out
ItemSend ==
    /\ pc = "loop"
    /\ i <= Len(records)
    /\ pc' = "await_item"
    /\ Issue(endpoint, records[i])
    /\ UNCHANGED <<endpoint, records, i, aggregated, elapsed_total, ret>>
    /\ UNCHANGED <<svcVars, uiVars, normVars>>

\* lines 85-101
ItemReceive ==
    /\ pc = "await_item"
    /\ \E o \in ItemOutcomes, d \in Durations :
          /\ Complete(o, d)
          /\ SetLocals(item_step(Locals, o, d, records[i]))
    /\ UNCHANGED <<endpoint, records>>
    /\ UNCHANGED <<svcVars, uiVars, normVars>>

\* line 102: the loop is over
FallbackReturn ==
    /\ pc = "loop"
    /\ i > Len(records)
    /\ SetLocals(loop_exit(Locals))
    /\ UNCHANGED <<endpoint, records, log>>
    /\ UNCHANGED <<svcVars, uiVars, normVars>>

Endpoints == {"/predict", "/predict-with-probability"}

RecordLists == SeqsUpTo({RecA, RecB}, MaxN)

ClientIdle ==
    /\ pc = "idle"
    /\ endpoint = "/predict"
    /\ records = <<>>
    /\ i = 0
    /\ aggregated = <<>>
    /\ elapsed_total = 0
    /\ ret = NoReturn
    /\ log = <<>>

ServiceIdle ==
    /\ svc_pc = "idle"
    /\ svc_endpoint = "/predict"
    /\ svc_req = JNull
    /\ svc_resp = Pending
    /\ model_available = TRUE
    /\ model_invoked = FALSE

UiIdle ==
    /\ input_mode = "none"
    /\ session_json = JNull
    /\ button = "none"
    /\ payload = JNull
    /\ ui = "idle"

NormIdle ==
    /\ norm_pc = "idle"
    /\ uploaded_json = JNull
    /\ normalized = JNull

----------------------------------------------------------------------------
\* The client called with any list of records, against any server, on the
\* route run() passes at lines 312 and 344

Init ==
    /\ pc = "start"
    /\ endpoint = "/predict-with-probability"
    /\ records \in RecordLists
    /\ i = 0
    /\ aggregated = <<>>
    /\ elapsed_total = 0
    /\ ret = NoReturn
    /\ log = <<>>
    /\ ServiceIdle /\ UiIdle /\ NormIdle

Next ==
    \/ BatchSend
    \/ BatchReceive
    \/ ItemSend
    \/ ItemReceive
    \/ FallbackReturn

Spec == Init /\ [][Next]_vars

----------------------------------------------------------------------------
\* Vocabulary of the properties of try_batch_with_fallback

Returned     == pc = "returned"
N            == Len(records)
Calls        == Len(log)
First        == log[1].outcome
ItemCall(k)  == log[k + 1]
Result       == ret.result
TimeSpent    == SumDur([n \in 1..Len(log) |-> log[n].dur])

\* the optimistic call was answered 422 with a sub-error msg holding the signature
BatchRejected ==
    /\ Calls >= 1
    /\ First \in {Resp(HTTP_422, b) : b \in MatchingBodies}

\* the optimistic call raised, or was answered neither 200 nor 422, or 422
\* without a sub-error msg holding the signature
BatchFailed ==
    /\ Calls >= 1
    /\ \/ First \in Failures
       \/ First \in {Resp(HTTP_500, b) : b \in MatchingBodies \cup OtherBodies}
       \/ First \in {Resp(HTTP_422, b) : b \in OtherBodies}

BatchAccepted ==
    /\ Calls >= 1
    /\ First \in {Resp(HTTP_200, b) : b \in MatchingBodies \cup OtherBodies}

\* entry e is what the call with outcome o left behind
Reflects(e, o) ==
    IF IsExc(o)
    THEN IsDict(e) /\ HasKey(e, "error")
         /\ Lookup(e, "error") = JStr(<<"Request", "failed:">> \o o[2])
    ELSE IF status_code(o) = HTTP_200
    THEN IF HasJson(o) THEN e = json(o)
         ELSE e = JDict(<< <<"raw_text", JStr(text(o))>> >>)
    ELSE IsDict(e) /\ HasKey(e, "error") /\ HasKey(e, "status")
         /\ Lookup(e, "status") = JNum(status_code(o))
         /\ Lookup(e, "error") = (IF HasJson(o) THEN json(o) ELSE JStr(text(o)))

\* entry e is the error entry of a call that failed in transport
IsTransportItemError(e) ==
    /\ IsDict(e)
    /\ HasKey(e, "error") /\ HasKey(e, "input")
    /\ IsStr(Lookup(e, "error"))
    /\ Contains(Words(Lookup(e, "error")), <<"Request", "failed:">>)

\* C1: after a batch rejected with the signature, the client has made
\* exactly N+1 calls, the list first and then one call per record in input
\* order, and returns N entries, entry k being the outcome of the call made
\* for record k, whatever the per-record outcomes were.
C1_FallbackCallsAndOrder ==
    (Returned /\ BatchRejected) =>
        /\ Calls = N + 1
        /\ InFlight = {}
        /\ log[1].payload = JList(records)
        /\ IsList(Result)
        /\ Len(Items(Result)) = N
        /\ \A k \in 1..N :
              /\ ItemCall(k).payload = records[k]
              /\ ItemCall(k).endpoint = endpoint
              /\ Reflects(Items(Result)[k], ItemCall(k).outcome)

C1_Witness ==
    /\ Returned /\ BatchRejected
    /\ N = 2 /\ records[1] # records[2]
    /\ IsExc(ItemCall(1).outcome)
    /\ ItemCall(2).outcome = Resp(HTTP_200, JsonBody(Prediction(1)))

\* C2: in the fallback path a per-record call that fails in transport does
\* not abort the rest: every record is called, the operation returns
\* success with N entries, a transport error entry at exactly the failed
\* positions and the decoded answer of the call at every other position.
C2_TransportFailureIsolated ==
    (Returned /\ BatchRejected) =>
        /\ ret.success
        /\ Calls = N + 1
        /\ IsList(Result)
        /\ Len(Items(Result)) = N
        /\ \A k \in 1..N :
              /\ IsExc(ItemCall(k).outcome) <=> IsTransportItemError(Items(Result)[k])
              /\ ~IsExc(ItemCall(k).outcome) =>
                    Reflects(Items(Result)[k], ItemCall(k).outcome)

C2_Witness ==
    /\ Returned /\ BatchRejected
    /\ N = 2
    /\ IsExc(ItemCall(1).outcome)
    /\ ItemCall(2).outcome = Resp(HTTP_422, JsonBody(Detail(JList(<<FieldRequiredError("proline")>>))))
    /\ IsTransportItemError(Items(Result)[1])
    /\ ~IsTransportItemError(Items(Result)[2])

\* C3 (as claimed): on every return path the reported elapsed total is the
\* sum of the elapsed times of all network calls made, those that failed in
\* transport or timed out included.
C3_ElapsedCoversEveryCall ==
    Returned => ret.elapsed_total_seconds = TimeSpent

\* C4: when the optimistic call raises, or is answered neither 200 nor 422,
\* or 422 without a sub-error msg holding the signature, the client returns
\* failure with the received error and has made exactly one call.
C4_NoFallbackOnOtherFailure ==
    (Returned /\ BatchFailed) =>
        /\ ~ret.success
        /\ Calls = 1
        /\ log[1].payload = JList(records)
        /\ Result = (IF IsExc(First) THEN JStr(<<"Request", "failed:">> \o First[2])
                     ELSE IF HasJson(First) THEN json(First)
                     ELSE JStr(text(First)))

C4_Witness ==
    /\ Returned
    /\ N = 2
    /\ First = Resp(HTTP_422, JsonBody(Detail(JStr(MsgObjectExpected))))
    /\ ~ret.success

\* C5 (as claimed): every error entry appended in the fallback loop carries
\* the original input record: both the entry of a per-record call answered
\* with a non-success response and the entry of one that failed in transport.
C5_ItemErrorsCarryInput ==
    (Returned /\ BatchRejected) =>
        \A k \in 1..N :
            (IsExc(ItemCall(k).outcome) \/ status_code(ItemCall(k).outcome) # HTTP_200) =>
                /\ k <= Len(Items(Result))
                /\ HasKey(Items(Result)[k], "error")
                /\ HasKey(Items(Result)[k], "input")
                /\ Lookup(Items(Result)[k], "input") = records[k]

\* C6 (as claimed): a 200 answer to the optimistic call makes the client
\* return success with the JSON body of the response, after one call.
C6_AcceptedBatchReturnsJsonBody ==
    (Returned /\ BatchAccepted) =>
        /\ ret.success
        /\ Calls = 1
        /\ HasJson(First)
        /\ Result = json(First)

\* C6 (amended): a 200 answer to the optimistic call makes the client return
\* success after one call, with the JSON body of the response unchanged when
\* the body decodes as JSON and with {"raw_text": <body text>} when it does not.
C6_AcceptedBatchReturnsBody ==
    (Returned /\ BatchAccepted) =>
        /\ ret.success
        /\ Calls = 1
        /\ log[1].payload = JList(records)
        /\ HasJson(First) => Result = json(First)
        /\ ~HasJson(First) => Result = JDict(<< <<"raw_text", JStr(text(First))>> >>)

C6_Witness ==
    /\ Returned
    /\ N = 2
    /\ First = Resp(HTTP_200, JsonBody(JList(<<Prediction(0), Prediction(1)>>)))
    /\ Result = JList(<<Prediction(0), Prediction(1)>>)

----------------------------------------------------------------------------
\* Inference Service (main.py)

\* strings that parse as a float
NumericWords == {"13.0", "100"}
IsNumericString(j) == IsStr(j) /\ Len(Words(j)) = 1 /\ Words(j)[1] \in NumericWords

\* the errors of field f: float (lines 14-26), validated as pydantic does
\* for a BaseModel with no model_config: required, numbers and numeric
\* strings accepted
RECURSIVE FieldErrors(_, _)
FieldErrors(body, n) ==
    IF n > Len(WINE_FEATURES) THEN <<>>
    ELSE LET f == WINE_FEATURES[n]
             here == IF ~HasKey(body, f) THEN <<FieldRequiredError(f)>>
                     ELSE IF IsNum(Lookup(body, f)) \/ IsNumericString(Lookup(body, f))
                          THEN <<>>
                          ELSE <<NotANumberError(f)>>
         IN  here \o FieldErrors(body, n + 1)

\* WineData with the message pydantic 1 gives for a body that is no object
WineData_not_a_dict(body) ==
    IF ~IsDict(body)
    THEN <<ErrorItem("type_error.dict", <<JStr(<<"body">>)>>,
                     <<"value", "is", "not", "a", "valid", "dict">>)>>
    ELSE FieldErrors(body, 1)

\* wine_features: WineData (lines 13-26, 46, 77): the validation errors of a
\* request body; keys that are no field of the class are ignored
WineData(body) ==
    IF ~IsDict(body) THEN <<ObjectExpectedError>>
    ELSE FieldErrors(body, 1)

Classes == 0..2

\* {"prediction", "class_name", "probabilities"} of predict_with_prob
\* (predict.py lines 64-71), probabilities in percent
PredictionWithProba(c) ==
    JDict(<< <<"prediction", JNum(c)>>,
             <<"class_name", JStr(<<ClassName(c)>>)>>,
             <<"probabilities",
               JDict([k \in 1..3 |->
                        <<ClassName(k - 1), JNum(IF k - 1 = c THEN 100 ELSE 0)>>])>> >>)

\* the response to body on route ep, when the model (if it is there) says c
Respond(ep, body, available, c) ==
    IF WineData(body) # <<>>
    THEN Resp(HTTP_422, JsonBody(Detail(JList(WineData(body)))))
    ELSE IF ~available
    THEN Resp(HTTP_500, JsonBody(Detail(JStr(MsgModelMissing))))
    ELSE Resp(HTTP_200, JsonBody(IF ep = "/predict" THEN Prediction(c)
                                 ELSE PredictionWithProba(c)))

\* model.predict runs when the body validates and the model file is found
Invoked(body, available) == WineData(body) = <<>> /\ available

\* POST /predict (lines 45-74)
predict_wine ==
    /\ svc_pc = "received"
    /\ svc_endpoint = "/predict"
    /\ \E c \in Classes :
          svc_resp' = Respond(svc_endpoint, svc_req, model_available, c)
    /\ model_invoked' = Invoked(svc_req, model_available)
    /\ svc_pc' = "responded"
    /\ UNCHANGED <<svc_endpoint, svc_req, model_available>>
    /\ UNCHANGED <<clientVars, uiVars, normVars>>

\* POST /predict-with-probability (lines 76-101)
predict_wine_with_probability ==
    /\ svc_pc = "received"
    /\ svc_endpoint = "/predict-with-probability"
    /\ \E c \in Classes :
          svc_resp' = Respond(svc_endpoint, svc_req, model_available, c)
    /\ model_invoked' = Invoked(svc_req, model_available)
    /\ svc_pc' = "responded"
    /\ UNCHANGED <<svc_endpoint, svc_req, model_available>>
    /\ UNCHANGED <<clientVars, uiVars, normVars>>

\* request bodies: records, records with one field missing or of another
\* type, records with one more key, lists of records, bare scalars
OtherValues == {JStr(<<"abc">>), JStr(<<"13.0">>), JNull, JList(<<>>)}

ServiceRequests ==
    {RecA, RecB, JDict(<<>>), JNum(5), JStr(<<"abc">>)}
    \cup {Without(RecA, f) : f \in FeatureNames}
    \cup {Put(RecA, f, v) : f \in FeatureNames, v \in OtherValues}
    \cup {Put(r, "vintage", v) : r \in {RecA, Without(RecA, "proline")},
                                 v \in {JNum(1), JStr(<<"abc">>)}}
    \cup {JList(l) : l \in RecordLists}

InitService ==
    /\ svc_pc = "received"
    /\ svc_endpoint \in Endpoints
    /\ svc_req \in ServiceRequests
    /\ svc_resp = Pending
    /\ model_available \in BOOLEAN
    /\ model_invoked = FALSE
    /\ ClientIdle /\ UiIdle /\ NormIdle

NextService ==
    \/ predict_wine
    \/ predict_wine_with_probability

SpecService == InitService /\ [][NextService]_vars

Responded == svc_pc = "responded"

\* the record has exactly the 13 fields, each a number or a numeric string
DecodesExactly(r) ==
    /\ IsDict(r)
    /\ {Pairs(r)[n][1] : n \in 1..Len(Pairs(r))} = FeatureNames
    /\ Len(Pairs(r)) = Len(WINE_FEATURES)
    /\ \A n \in 1..Len(Pairs(r)) :
          IsNum(Pairs(r)[n][2]) \/ IsNumericString(Pairs(r)[n][2])

\* C8 (as claimed): both routes answer a record that does not decode into
\* exactly the 13 numeric fields (a field missing, a non-numeric value, a
\* key too many) with a validation error, and do not invoke the model.
C8_InexactRecordRejected ==
    (Responded /\ IsDict(svc_req) /\ ~DecodesExactly(svc_req)) =>
        /\ status_code(svc_resp) = HTTP_422
        /\ ~model_invoked

\* some entry of the error list of r has a msg holding the signature
HasSignatureEntry(r) ==
    /\ HasJson(r)
    /\ IsDict(json(r))
    /\ HasKey(json(r), "detail")
    /\ IsList(Lookup(json(r), "detail"))
    /\ \E n \in 1..Len(Items(Lookup(json(r), "detail"))) :
          LET e == Items(Lookup(json(r), "detail"))[n] IN
             /\ IsDict(e) /\ HasKey(e, "msg") /\ IsStr(Lookup(e, "msg"))
             /\ Contains(Words(Lookup(e, "msg")), <<"dictionary", "or", "object">>)

\* C9: a list sent to either route is answered 422 with an error entry whose
\* msg holds the signature, without invoking the model, and that answer
\* makes try_batch_with_fallback enter the per-record loop.
C9_ListTriggersFallback ==
    (Responded /\ IsList(svc_req)) =>
        /\ status_code(svc_resp) = HTTP_422
        /\ HasSignatureEntry(svc_resp)
        /\ ~model_invoked
        /\ \A d \in Durations :
              batch_step([pc |-> "await_batch", i |-> 0, aggregated |-> <<>>,
                          elapsed_total |-> 0, ret |-> NoReturn],
                         svc_resp, d).pc = "loop"

C9_Witness ==
    /\ Responded
    /\ svc_req = JList(<<RecA, RecB>>)
    /\ model_available
    /\ svc_resp = Resp(HTTP_422, JsonBody(Detail(JList(<<ObjectExpectedError>>))))

----------------------------------------------------------------------------
\* normalize_uploaded_json (Dashboard.py lines 111-129)

ValueError == <<"ValueError">>
Raised(v)  == v = ValueError

\* normalize_uploaded_json with the isinstance tests of lines 120 and 122
\* left out
normalize_uploaded_json_unchecked(u) ==
    IF IsDict(u)
    THEN IF HasKey(u, "input_batch") THEN Lookup(u, "input_batch")
         ELSE IF HasKey(u, "input") THEN Lookup(u, "input")
         ELSE u
    ELSE IF IsList(u) THEN u
    ELSE ValueError

\* the value returned, or ValueError when line 129 raises
normalize_uploaded_json(u) ==
    IF IsDict(u)
    THEN IF HasKey(u, "input_batch") /\ IsList(Lookup(u, "input_batch"))
         THEN Lookup(u, "input_batch")
         ELSE IF HasKey(u, "input") /\ IsDict(Lookup(u, "input"))
         THEN Lookup(u, "input")
         ELSE u
    ELSE IF IsList(u) THEN u
    ELSE ValueError

InputWrapper(v) == JDict(<< <<"input", v>> >>)
BatchWrapper(v) == JDict(<< <<"input_batch", v>> >>)
BothWrapper(v, w) == JDict(<< <<"input", v>>, <<"input_batch", w>> >>)

\* what an uploaded document holds under a key
InnerValues ==
    { RecA, JDict(<<>>), InputWrapper(RecA),
      JList(<<>>), JList(<<RecA, RecB>>), JList(<<RecB, RecA>>),
      JNum(5), JStr(<<"abc">>), JNull }

Documents ==
    {RecA, RecB, JDict(<<>>), JNum(0), JNum(5), JStr(<<"abc">>), JNull}
    \cup {JList(l) : l \in RecordLists}
    \cup {InputWrapper(v) : v \in InnerValues}
    \cup {BatchWrapper(v) : v \in InnerValues}
    \cup {BothWrapper(v, w) : v \in InnerValues, w \in InnerValues}
    \cup {Put(RecA, "input", v) : v \in InnerValues}

InitNorm ==
    /\ norm_pc = "ready"
    /\ uploaded_json \in Documents
    /\ normalized = JNull
    /\ ClientIdle /\ ServiceIdle /\ UiIdle

Normalize ==
    /\ norm_pc = "ready"
    /\ normalized' = normalize_uploaded_json(uploaded_json)
    /\ norm_pc' = IF Raised(normalize_uploaded_json(uploaded_json))
                  THEN "raised" ELSE "returned"
    /\ UNCHANGED uploaded_json
    /\ UNCHANGED <<clientVars, svcVars, uiVars>>

NextNorm == Normalize

SpecNorm == InitNorm /\ [][NextNorm]_vars

\* the four accepted shapes
Keys(d)           == {Pairs(d)[n][1] : n \in 1..Len(Pairs(d))}
IsBareObject(u)   == IsDict(u) /\ Keys(u) \cap {"input", "input_batch"} = {}
IsInputShape(u)   == IsDict(u) /\ Keys(u) = {"input"} /\ IsDict(Lookup(u, "input"))
IsBatchShape(u)   == IsDict(u) /\ Keys(u) = {"input_batch"} /\ IsList(Lookup(u, "input_batch"))
IsBareList(u)     == IsList(u)
IsWrapper(v)      == IsDict(v) /\ Keys(v) \cap {"input", "input_batch"} # {}

Normalized == norm_pc \in {"returned", "raised"}

FourShapes ==
    /\ IsBareObject(uploaded_json) => norm_pc = "returned" /\ normalized = uploaded_json
    /\ IsInputShape(uploaded_json) =>
          norm_pc = "returned" /\ normalized = Lookup(uploaded_json, "input")
    /\ IsBatchShape(uploaded_json) =>
          norm_pc = "returned" /\ normalized = Lookup(uploaded_json, "input_batch")
    /\ IsBareList(uploaded_json) => norm_pc = "returned" /\ normalized = uploaded_json
    /\ (~IsDict(uploaded_json) /\ ~IsList(uploaded_json)) => norm_pc = "raised"

\* C10 (as claimed): the four shapes map to the object, the inner object,
\* the inner list in order and the list; a document that is neither an
\* object nor a list is rejected; and the result is never a wrapper object
\* that still holds the input or input_batch key.
C10_NeverAWrapper ==
    Normalized =>
        /\ FourShapes
        /\ norm_pc = "returned" => ~IsWrapper(normalized)

\* C10 (amended): the four shapes map as claimed and a document that is
\* neither an object nor a list is rejected; an object whose input_batch is
\* a list maps to that list whatever else it holds; otherwise an object
\* whose input is an object maps to that inner object; every other object,
\* one whose input is no object or whose input_batch is no list included,
\* is returned unchanged, so the result still holds the wrapper key there.
C10_Normalization ==
    Normalized =>
        /\ FourShapes
        /\ IsDict(uploaded_json) =>
              /\ norm_pc = "returned"
              /\ normalized =
                    (IF "input_batch" \in Keys(uploaded_json)
                        /\ IsList(Lookup(uploaded_json, "input_batch"))
                     THEN Lookup(uploaded_json, "input_batch")
                     ELSE IF "input" \in Keys(uploaded_json)
                             /\ IsDict(Lookup(uploaded_json, "input"))
                     THEN Lookup(uploaded_json, "input")
                     ELSE uploaded_json)

C10_Witness ==
    /\ norm_pc = "returned"
    /\ uploaded_json = BatchWrapper(JList(<<RecB, RecA>>))
    /\ normalized = JList(<<RecB, RecA>>)

----------------------------------------------------------------------------
\* run (Dashboard.py lines 131-354): one run of the script, from the payload
\* preparation of line 203 on

Modes   == {"Manual (single)", "JSON upload (single)", "JSON upload (batch)"}
Buttons == {"none", "predict_btn", "proba_btn", "batch_btn"}

\* manual_inputs with the defaults of lines 160-163
manual_inputs == RecA

\* payload after lines 203-217 (None is JNull)
prepare_payload(mode, uploaded) ==
    IF mode = "Manual (single)" THEN manual_inputs
    ELSE IF Truthy(uploaded)
         THEN IF Raised(normalize_uploaded_json(uploaded)) THEN JNull
              ELSE normalize_uploaded_json(uploaded)
         ELSE JNull

\* lines 225-226: payload[0] of an empty list raises IndexError
preview_raises(p) == IsList(p) /\ Len(Items(p)) = 0

\* where lines 296-349 take the run: a final message, or a call
\*   <<"show", message>>  <<"single", endpoint, body>>  <<"batch", endpoint, records>>
dispatch(btn, p, uploaded) ==
    CASE btn = "none" -> <<"show", "nothing">>
      [] btn = "predict_btn" ->
            IF IsNull(p) THEN <<"show", "No input provided.">>
            ELSE <<"single", "/predict", IF IsDict(p) THEN p ELSE InputWrapper(p)>>
      [] btn = "proba_btn" ->
            IF IsNull(p) THEN <<"show", "No input provided.">>
            ELSE IF IsList(p) THEN <<"batch", "/predict-with-probability", Items(p)>>
            ELSE <<"single", "/predict-with-probability", p>>
      [] btn = "batch_btn" ->
            IF ~Truthy(uploaded) THEN <<"show", "Please upload a JSON file">>
            ELSE IF Raised(normalize_uploaded_json(uploaded))
                 THEN <<"show", "Uploaded JSON not recognized.">>
            ELSE IF ~IsList(normalize_uploaded_json(uploaded))
                 THEN <<"show", "Uploaded JSON is not a list.">>
            ELSE <<"batch", "/predict-with-probability",
                   Items(normalize_uploaded_json(uploaded))>>

\* lines 203-349 up to the first network call or to the end of the run
run_main ==
    /\ ui = "start"
    /\ payload' = prepare_payload(input_mode, session_json)
    /\ IF preview_raises(payload')
       THEN /\ ui' = "IndexError"
            /\ UNCHANGED clientVars
       ELSE LET to == dispatch(button, payload', session_json) IN
            CASE to[1] = "show" ->
                    /\ ui' = to[2]
                    /\ UNCHANGED clientVars
              [] to[1] = "single" ->
                    /\ ui' = "calling"
                    /\ pc' = "await_single"
                    /\ endpoint' = to[2]
                    /\ Issue(to[2], to[3])
                    /\ UNCHANGED <<records, i, aggregated, elapsed_total, ret>>
              [] to[1] = "batch" ->
                    /\ ui' = "calling"
                    /\ pc' = "start"
                    /\ endpoint' = to[2]
                    /\ records' = to[3]
                    /\ UNCHANGED <<i, aggregated, elapsed_total, ret, log>>
    /\ UNCHANGED <<input_mode, session_json, button>>
    /\ UNCHANGED <<svcVars, normVars>>

\* lines 302-303, 322-323, 352-354 and process_response (lines 234-292)
run_single_done ==
    /\ ui = "calling"
    /\ pc = "await_single"
    /\ \E o \in ItemOutcomes, d \in Durations :
          /\ Complete(o, d)
          /\ ui' = IF IsExc(o) THEN "Request to backend failed."
                   ELSE IF status_code(o) # HTTP_200 THEN "Server returned error"
                   ELSE IF ~HasJson(o) THEN "Failed to process server response."
                   ELSE "Prediction"
    /\ pc' = "returned"
    /\ UNCHANGED <<endpoint, records, i, aggregated, elapsed_total, ret>>
    /\ UNCHANGED <<input_mode, session_json, button, payload>>
    /\ UNCHANGED <<svcVars, normVars>>

\* lines 313-318 and 345-349
run_batch_done ==
    /\ ui = "calling"
    /\ pc = "returned"
    /\ ui' = IF ret.success THEN "Batch prediction returned" ELSE "Batch request failed"
    /\ UNCHANGED clientVars
    /\ UNCHANGED <<input_mode, session_json, button, payload>>
    /\ UNCHANGED <<svcVars, normVars>>

RunLists == SeqsUpTo({RecA}, MaxN)

\* st.session_state["UPLOADED_JSON"]: None, or the document json.load gave
SessionDocuments ==
    {JNull, RecA, JDict(<<>>), JNum(5), InputWrapper(RecA), InputWrapper(JNum(5))}
    \cup {JList(l) : l \in RunLists}
    \cup {BatchWrapper(JList(l)) : l \in RunLists}

InitRun ==
    /\ ui = "start"
    /\ input_mode \in Modes
    /\ button \in Buttons
    /\ session_json \in SessionDocuments
    /\ payload = JNull
    /\ ClientIdle /\ ServiceIdle /\ NormIdle

NextRun ==
    \/ run_main
    \/ run_single_done
    \/ run_batch_done
    \/ BatchSend
    \/ BatchReceive
    \/ ItemSend
    \/ ItemReceive
    \/ FallbackReturn

SpecRun == InitRun /\ [][NextRun]_vars

RunOver == ui \notin {"start", "calling"}

\* the uploaded document is an empty sequence of records
EmptySequenceUploaded ==
    /\ input_mode # "Manual (single)"
    /\ session_json \in {JList(<<>>), BatchWrapper(JList(<<>>))}

\* C7 (as claimed): for an uploaded empty sequence the batch prediction
\* still issues the optimistic call with the empty list, and what the user
\* is shown is what try_batch_with_fallback made of the answer to that call.
C7_EmptySequenceStillCalls ==
    (RunOver /\ EmptySequenceUploaded /\ button \in {"proba_btn", "batch_btn"}) =>
        /\ Calls >= 1
        /\ log[1].payload = JList(<<>>)
        /\ ui \in {"Batch prediction returned", "Batch request failed"}

----------------------------------------------------------------------------
\* Sequencing of the requests of try_batch_with_fallback

\* C11: at most one request is in flight at any time: a request that is
\* still unanswered is the last one issued, so the first per-record call is
\* issued only after the optimistic call has completed and the call for
\* record k+1 only after the call for record k has returned or raised; the
\* per-record calls go out in the order of the records.
C11_OneRequestInFlight ==
    /\ Cardinality(InFlight) <= 1
    /\ \A n \in InFlight : n = Len(log)
    /\ Len(log) >= 1 => log[1].payload = JList(records)
    /\ Len(log) >= 2 => log[1].outcome \in {Resp(HTTP_422, b) : b \in MatchingBodies}
    /\ \A n \in 2..Len(log) :
          /\ n - 1 <= Len(records)
          /\ log[n].payload = records[n - 1]

C11_Witness ==
    /\ pc = "await_item"
    /\ Len(records) = 2 /\ records[1] # records[2]
    /\ Len(log) = 3
    /\ InFlight = {3}
    /\ IsExc(log[2].outcome)
    /\ log[3].payload = records[2]

----------------------------------------------------------------------------
\* run (Dashboard.py lines 131-354): the whole script run, the backend status
\* of the sidebar (lines 136-146) first

\* the server never answers a call that has no timeout: it stays in flight
Blocked == <<"blocked">>

\* {"status": "healthy", ...} of health_ping (main.py lines 37-43)
HealthPayload ==
    JDict(<< <<"status", JStr(<<"healthy">>)>>,
             <<"model", JStr(<<"Random", "Forest", "Wine", "Classifier">>)>>,
             <<"version", JStr(<<"2.0.0">>)>> >>)

HealthOutcomes ==
    { Resp(HTTP_200, JsonBody(HealthPayload)),
      Resp(HTTP_500, TextBody(HtmlText)),
      Exc(<<"Connection", "refused">>) }

\* line 139: requests.get(FASTAPI_BACKEND_ENDPOINT), no timeout argument
run_health_send ==
    /\ ui = "sidebar"
    /\ ui' = "health_check"
    /\ log' = Append(log, [method |-> "GET", endpoint |-> "/", payload |-> JNull,
                           timeout |-> NoTimeout,
                           outcome |-> Pending, dur |-> 0])
    /\ UNCHANGED <<pc, endpoint, records, i, aggregated, elapsed_total, ret>>
    /\ UNCHANGED <<input_mode, session_json, button, payload>>
    /\ UNCHANGED <<svcVars, normVars>>

\* lines 140-146: online, a warning or offline; the script goes on
run_health_done ==
    /\ ui = "health_check"
    /\ log[Len(log)].outcome = Pending
    /\ \E o \in HealthOutcomes, d \in Durations : Complete(o, d)
    /\ ui' = "start"
    /\ UNCHANGED <<pc, endpoint, records, i, aggregated, elapsed_total, ret>>
    /\ UNCHANGED <<input_mode, session_json, button, payload>>
    /\ UNCHANGED <<svcVars, normVars>>

\* line 139 against a server that accepts the connection and never answers:
\* with no timeout requests.get does not return
run_health_blocked ==
    /\ ui = "health_check"
    /\ log[Len(log)].outcome = Pending
    /\ log[Len(log)].timeout = NoTimeout
    /\ log' = [log EXCEPT ![Len(log)].outcome = Blocked]
    /\ UNCHANGED <<pc, endpoint, records, i, aggregated, elapsed_total, ret>>
    /\ UNCHANGED uiVars
    /\ UNCHANGED <<svcVars, normVars>>

InitPage ==
    /\ ui = "sidebar"
    /\ input_mode \in Modes
    /\ button \in Buttons
    /\ session_json \in SessionDocuments
    /\ payload = JNull
    /\ ClientIdle /\ ServiceIdle /\ NormIdle

NextPage ==
    \/ run_health_send
    \/ run_health_done
    \/ run_health_blocked
    \/ run_main
    \/ run_single_done
    \/ run_batch_done
    \/ BatchSend
    \/ BatchReceive
    \/ ItemSend
    \/ ItemReceive
    \/ FallbackReturn

SpecPage == InitPage /\ [][NextPage]_vars

\* C12 (as claimed): every network call the client issues carries an
\* explicit timeout (the optimistic batch call, the per-record calls, the
\* single-record calls and the backend health check), so no call stays
\* unanswered forever.
C12_EveryCallHasTimeout ==
    \A n \in 1..Len(log) :
        /\ log[n].timeout # NoTimeout
        /\ log[n].outcome # Blocked

====
